---- MODULE Spec2Model ----
(***************************************************************************)
(* Playback / playlist state machine of AudioPlayer.py (class App).        *)
(* Every handler of the Tk application is an operator from an application  *)
(* state record to the application state record after the handler has      *)
(* returned; the actions apply these operators to the variables.           *)
(*                                                                         *)
(* Tracks are file paths; 1, 2, 3 stand for three existing audio files in  *)
(* path order (sorted() in add_songs is the order of the numbers).         *)
(* The vlc engine is the external collaborator: a handle is a record       *)
(* [track, state, pos], pos in ms; the engine moves opening -> playing,    *)
(* opening -> error, playing -> ended and advances pos on its own.         *)
(*                                                                         *)
(* Spec is the playback / playlist machine; a timer callback may fire at   *)
(* any time there and the pending-callback counters, the playlist file and *)
(* the set of deleted audio files are not tracked (they keep their initial *)
(* values).  SpecTimers tracks the Tk timer queue, SpecStore the playlist  *)
(* file across sessions, SpecSeek the clicks on the progress bar, SpecMarks  *)
(* the marking steps on titles that begin with marker glyphs, SpecSleep    *)
(* the variant mp3player.py with its sleep listener, SpecTimersFair the    *)
(* one-track sessions of SpecTimers with fair timer callbacks.             *)
(***************************************************************************)
EXTENDS Integers, Sequences, FiniteSets, TLC

VARIABLES playlist, tree, sel, current_index, index_to_play,
          current_index_playing, paused, player, current_song_length,
          released,
          nWait, nProg, nEnd, advances, stored, missing

vars == <<playlist, tree, sel, current_index, index_to_play,
          current_index_playing, paused, player, current_song_length,
          released, nWait, nProg, nEnd, advances, stored, missing>>

\* the Tk timer queue, and the file system
timers == <<nWait, nProg, nEnd, advances>>
disk == <<stored, missing>>

\* ------------------------------------------------------------ bounds ----
MaxLen == 2
MaxPos == 1
MaxTimers == 2
MaxDur == 200
MaxWidth == 2
MaxGlyphs == 2

\* ------------------------------------------------------------ domains ---
Tracks == {1, 2}
\* self.player is None
None == [track |-> 0, state |-> "none", pos |-> 0]
NoSel == -1
LiveStates == {"opening", "playing", "paused"}
EngineStates == LiveStates \cup {"stopped", "ended", "error"}
Steps == {1, -1}
Outcomes == {"ok", "raise"}

RECURSIVE SeqsUpTo(_)
SeqsUpTo(n) ==
    IF n = 0 THEN {<<>>}
    ELSE LET shorter == SeqsUpTo(n - 1)
         IN shorter \cup {Append(q, t) : q \in {x \in shorter : Len(x) = n - 1}, t \in Tracks}

RECURSIVE SortedSeq(_)
SortedSeq(S) ==
    IF S = {} THEN <<>>
    ELSE LET m == CHOOSE x \in S : \A y \in S : x <= y
         IN <<m>> \o SortedSeq(S \ {m})

\* del q[i-1] and q.insert(i-1, x), with 1-based i
RemoveAt(q, i) == SubSeq(q, 1, i - 1) \o SubSeq(q, i + 1, Len(q))

InsertAt(q, i, x) == SubSeq(q, 1, i - 1) \o <<x>> \o SubSeq(q, i, Len(q))

\* Duration in seconds reported by get_audio_duration; 0 is "unknown".
get_audio_duration(t) == IF t = 2 THEN 0 ELSE MaxPos

\* The application state as one record.  nWait, nProg and nEnd count the
\* pending callbacks (self.after) of wait_for_playing_and_update,
\* update_progress and check_song_end; advances counts the end-of-track
\* handlings (skip(1) or stop) run since the handle last entered Ended;
\* stored is the playlist in PLAYLIST_FILE, missing the audio files that no
\* longer exist.  exc is the exception that escapes the handler ("none" if
\* it returns) and set_time the last position in ms the handler issued to
\* the engine (-1 if none).
St ==
    [playlist |-> playlist, tree |-> tree, sel |-> sel,
     current_index |-> current_index, index_to_play |-> index_to_play,
     current_index_playing |-> current_index_playing, paused |-> paused,
     player |-> player, current_song_length |-> current_song_length,
     released |-> released, nWait |-> nWait, nProg |-> nProg, nEnd |-> nEnd,
     advances |-> advances, stored |-> stored, missing |-> missing,
     exc |-> "none", set_time |-> -1]

\* ------------------------------------------------------------ engine ----
\* vlc.MediaPlayer(song); player.play(): a fresh handle, still opening.
NewHandle(t) == [track |-> t, state |-> "opening", pos |-> 0]

\* a stop() that leaves the engine state as it is
vlc_stop_no_effect(h) == h

\* player.stop()
vlc_stop(h) == [h EXCEPT !.state = "stopped", !.pos = 0]

\* player.play(): resumes a paused handle, restarts a stopped/ended one.
vlc_play(h) ==
    IF h.state = "paused" THEN [h EXCEPT !.state = "playing"]
    ELSE IF h.state \in {"stopped", "ended", "error"}
         THEN [h EXCEPT !.state = "opening", !.pos = 0]
         ELSE h

\* player.pause(): pauses a playing handle; no effect when nothing plays.
vlc_pause(h) ==
    IF h.state = "playing" THEN [h EXCEPT !.state = "paused"]
    ELSE IF h.state = "paused" THEN [h EXCEPT !.state = "playing"]
         ELSE h

\* player.set_time(ms): moves the position of a handle that has an input;
\* libvlc ignores the call on a handle that is not playing or paused.
vlc_set_time(h, ms) ==
    IF h.state \in {"playing", "paused"} THEN [h EXCEPT !.pos = ms] ELSE h

\* A handle the application drops (self.player rebound) is never released
\* by python-vlc; if it was not stopped it keeps sounding.
Drop(s) ==
    IF s.player # None /\ s.player.state \in LiveStates
    THEN s.released \cup {s.player}
    ELSE s.released

\* ------------------------------------------------------------ markers ---
\* A row is [title, prefix, tag]: prefix is the sequence of marker
\* prefixes in front of the title text, tag is the "playing" row tag.
Row(t) == [title |-> t, prefix |-> <<>>, tag |-> FALSE]

StartsWith(p, m) == p # <<>> /\ Head(p) = m

\* vals[1] = vals[1][2:] when it starts with any of the three markers
StripAny(p) == IF p # <<>> THEN Tail(p) ELSE p

\* the i == index branch of mark_*_item: the stripped title is written back
\* only together with the new marker
MarkRow(r, m) ==
    LET p1 == StripAny(r.prefix)
    IN [r EXCEPT !.prefix = IF StartsWith(p1, m) THEN r.prefix ELSE <<m>> \o p1,
                 !.tag = TRUE]

UnmarkRow(r) == [r EXCEPT !.prefix = StripAny(r.prefix), !.tag = FALSE]

mark_item(s, index, m) ==
    IF Len(s.tree) = 0 THEN s ELSE
    [s EXCEPT !.tree = [i \in 1..Len(s.tree) |->
                          IF i - 1 = index THEN MarkRow(s.tree[i], m)
                          ELSE UnmarkRow(s.tree[i])]]

mark_playing_item(s, index) == mark_item(s, index, "play")
mark_pause_item(s, index) == mark_item(s, index, "pause")
mark_stopped_item(s, index) == mark_item(s, index, "stop")

clear_mark(s, m) ==
    IF Len(s.tree) = 0 THEN s ELSE
    [s EXCEPT !.tree = [i \in 1..Len(s.tree) |->
                          [s.tree[i] EXCEPT
                             !.prefix = IF StartsWith(s.tree[i].prefix, m)
                                        THEN Tail(s.tree[i].prefix)
                                        ELSE s.tree[i].prefix,
                             !.tag = FALSE]]]

clear_playing_mark(s) == clear_mark(s, "play")
clear_stop_mark(s) == clear_mark(s, "stop")

InRange(i, q) == 0 <= i /\ i < Len(q)

\* ------------------------------------------------------------ transport -
\* stop_song without "self.paused = False"
stop_song_keep_paused(s) ==
    LET s1 == [s EXCEPT !.player = IF s.player # None THEN vlc_stop(s.player) ELSE None]
        s2 == clear_playing_mark(s1)
    IN IF InRange(s2.current_index_playing, s2.playlist)
       THEN mark_stopped_item(s2, s2.current_index_playing)
       ELSE s2

\* stop_song that also forgets the playing index
stop_song_reset_index(s) ==
    LET s1 == [s EXCEPT !.paused = FALSE, !.current_index_playing = 0,
                        !.player = IF s.player # None THEN vlc_stop(s.player) ELSE None]
    IN clear_playing_mark(s1)

stop_song(s) ==
    LET s1 == [s EXCEPT !.paused = FALSE,
                        !.player = IF s.player # None THEN vlc_stop(s.player) ELSE None]
        s2 == clear_playing_mark(s1)
    IN IF InRange(s2.current_index_playing, s2.playlist)
       THEN mark_stopped_item(s2, s2.current_index_playing)
       ELSE s2

\* play_song that rebinds self.player without stopping the previous handle
play_song_no_stop(s, o) ==
    IF s.player # None /\ s.player.state = "playing"
       /\ s.current_index_playing = s.index_to_play
    THEN s
    ELSE LET itp == IF s.index_to_play < 0 THEN s.current_index ELSE s.index_to_play
             s2 == [clear_stop_mark(s) EXCEPT !.paused = FALSE, !.index_to_play = itp,
                                              !.current_index_playing = itp]
         IN IF ~InRange(itp, s2.playlist)
            THEN [s2 EXCEPT !.exc = "IndexError"]
            ELSE IF o = "raise"
                 THEN [s2 EXCEPT !.released = Drop(s2), !.player = None]
                 ELSE LET song == s2.playlist[itp + 1]
                          s3 == [s2 EXCEPT !.released = Drop(s2),
                                           !.player = NewHandle(song),
                                           !.current_song_length = get_audio_duration(song),
                                           !.nWait = s2.nWait + 1,
                                           !.nEnd = s2.nEnd + 1]
                      IN mark_playing_item(s3, s3.current_index_playing)

\* play_song without the "already playing this index" early return
play_song_always_restart(s, o) ==
    LET s1 == clear_stop_mark(stop_song(s))
        itp == IF s1.index_to_play < 0 THEN s1.current_index ELSE s1.index_to_play
        s2 == [s1 EXCEPT !.index_to_play = itp, !.current_index_playing = itp]
    IN IF ~InRange(itp, s2.playlist)
       THEN [s2 EXCEPT !.exc = "IndexError"]
       ELSE IF o = "raise"
            THEN [s2 EXCEPT !.released = Drop(s2), !.player = None]
            ELSE LET song == s2.playlist[itp + 1]
                     s3 == [s2 EXCEPT !.released = Drop(s2),
                                      !.player = NewHandle(song),
                                      !.current_song_length = get_audio_duration(song),
                                      !.nWait = s2.nWait + 1,
                                      !.nEnd = s2.nEnd + 1]
                 IN mark_playing_item(s3, s3.current_index_playing)

\* play_song: o is the outcome of creating and starting the engine handle.
\* The inline wait_for_playing_and_update() and check_song_end() calls see
\* the fresh handle still opening, so each arms its timer.
play_song(s, o) ==
    IF s.player # None /\ s.player.state = "playing"
       /\ s.current_index_playing = s.index_to_play
    THEN s
    ELSE LET s1 == clear_stop_mark(stop_song(s))
             itp == IF s1.index_to_play < 0 THEN s1.current_index ELSE s1.index_to_play
             s2 == [s1 EXCEPT !.index_to_play = itp, !.current_index_playing = itp]
         IN IF ~InRange(itp, s2.playlist)
            THEN [s2 EXCEPT !.exc = "IndexError"]     \* playlist[...] raises
            ELSE IF o = "raise"
                 THEN [s2 EXCEPT !.released = Drop(s2), !.player = None]
                 ELSE LET song == s2.playlist[itp + 1]
                          s3 == [s2 EXCEPT !.released = Drop(s2),
                                           !.player = NewHandle(song),
                                           !.current_song_length = get_audio_duration(song),
                                           !.nWait = s2.nWait + 1,
                                           !.nEnd = s2.nEnd + 1]
                      IN mark_playing_item(s3, s3.current_index_playing)

\* Play(index): index_to_play = index; play_song()
Play(s, index, o) == play_song([s EXCEPT !.index_to_play = index], o)

\* skip without the modulo
skip_no_wrap(s, step, o) ==
    IF Len(s.playlist) = 0
    THEN [s EXCEPT !.exc = "ZeroDivisionError"]
    ELSE play_song([s EXCEPT !.index_to_play = s.index_to_play + step], o)

skip(s, step, o) ==
    IF Len(s.playlist) = 0
    THEN [s EXCEPT !.exc = "ZeroDivisionError"]       \* % len(self.playlist)
    ELSE play_song([s EXCEPT !.index_to_play =
                        (s.index_to_play + step) % Len(s.playlist)], o)

\* ------------------------------------------------------------ poller ----
\* update_progress without its own end detection
update_progress_no_end(s, o) ==
    IF s.player # None /\ s.player.state = "playing"
    THEN IF s.player.pos \div 1000 < s.current_song_length
         THEN [s EXCEPT !.nProg = s.nProg + 1]
         ELSE s
    ELSE s

update_progress(s, o) ==
    IF s.player # None /\ s.player.state = "playing"
    THEN IF s.player.pos \div 1000 < s.current_song_length
         THEN [s EXCEPT !.nProg = s.nProg + 1]
         ELSE s
    ELSE IF s.player # None /\ s.player.state = "ended"
         THEN IF ~s.paused /\ s.current_index_playing < Len(s.playlist) - 1
              THEN skip([s EXCEPT !.advances = s.advances + 1], 1, o)
              ELSE s
         ELSE s

wait_for_playing_and_update(s, o) ==
    IF s.player # None /\ s.player.state = "playing"
    THEN update_progress(s, o)
    ELSE [s EXCEPT !.nWait = s.nWait + 1]

\* check_song_end that wraps around to index 0 after the last track
check_song_end_wrap(s, o) ==
    IF s.player # None /\ s.player.state = "ended"
    THEN IF ~s.paused
         THEN skip([s EXCEPT !.advances = s.advances + 1], 1, o)
         ELSE s
    ELSE [s EXCEPT !.nEnd = s.nEnd + 1]

check_song_end(s, o) ==
    IF s.player # None /\ s.player.state = "ended"
    THEN IF ~s.paused
         THEN IF s.current_index_playing < Len(s.playlist) - 1
              THEN skip([s EXCEPT !.advances = s.advances + 1], 1, o)
              ELSE LET s1 == stop_song([s EXCEPT !.advances = s.advances + 1])
                   IN IF InRange(s1.current_index_playing, s1.playlist)
                      THEN mark_stopped_item(s1, s1.current_index_playing)
                      ELSE s1
         ELSE s
    ELSE [s EXCEPT !.nEnd = s.nEnd + 1]

pause_song(s) ==
    IF s.player = None
    THEN s
    ELSE LET s1 == [s EXCEPT !.player = IF s.paused THEN vlc_play(s.player)
                                        ELSE vlc_pause(s.player),
                             !.paused = ~s.paused]
         IN IF s1.paused
            THEN mark_pause_item(s1, s1.current_index_playing)
            ELSE wait_for_playing_and_update(
                     mark_playing_item(s1, s1.current_index_playing), "ok")

\* seek_progress with percent computed by integer division
seek_progress_int_percent(s, x, w, o) ==
    IF s.player = None
    THEN s
    ELSE LET set_time == (s.current_song_length * (x \div w)) * 1000
         IN update_progress([s EXCEPT !.player = vlc_set_time(s.player, set_time),
                                      !.set_time = set_time], o)

\* int(): truncation towards zero of the quotient n / d, d > 0
int(n, d) == IF n >= 0 THEN n \div d ELSE -((-n) \div d)

\* a click at x on the progress bar of width w: percent = x / w is a float;
\* for the widths 1, 2 and 3 the float product truncates to the same whole
\* second as the exact one
seek_progress(s, x, w, o) ==
    IF s.player = None
    THEN s
    ELSE LET set_time == int(s.current_song_length * x, w) * 1000
         IN update_progress([s EXCEPT !.player = vlc_set_time(s.player, set_time),
                                      !.set_time = set_time], o)

\* play_selected without the resume branch
play_selected_always_play(s, o) ==
    LET s1 == IF s.sel # NoSel THEN [s EXCEPT !.current_index = s.sel] ELSE s
    IN IF s1.sel # NoSel
       THEN Play(s1, s1.current_index, o)
       ELSE s1

play_selected(s, o) ==
    LET s1 == IF s.sel # NoSel THEN [s EXCEPT !.current_index = s.sel] ELSE s
    IN IF s1.paused /\ s1.current_index_playing = s1.current_index
       THEN wait_for_playing_and_update(pause_song(s1), "ok")
       ELSE IF s1.sel # NoSel
            THEN Play(s1, s1.current_index, o)
            ELSE s1

\* ------------------------------------------------------------ playlist --
\* add_song_to_list for each path of q, in order; a path that is no file
\* is left out
add_all(s, q) ==
    LET files == SelectSeq(q, LAMBDA t : t \notin s.missing)
    IN [s EXCEPT !.playlist = s.playlist \o files,
                 !.tree = s.tree \o [i \in 1..Len(files) |-> Row(files[i])]]

\* json.dump({"playlist": self.playlist}, open(self.PLAYLIST_FILE, "w"))
dump(s) == [s EXCEPT !.stored = s.playlist]

SelectFirst(s) == IF Len(s.tree) > 0 THEN [s EXCEPT !.sel = 0] ELSE s

\* add_songs that does not write the playlist file
add_songs_no_dump(s, files) == add_all(s, SortedSeq(files))

add_songs(s, files) == dump(add_all(s, SortedSeq(files)))

add_folder(s, files) ==
    LET s1 == dump(add_all(s, SortedSeq(files)))
        s2 == IF s1.player # None THEN stop_song(s1) ELSE s1
    IN SelectFirst(s2)

\* q holds the dropped paths that are files with a supported extension
handle_drop1(s, q) ==
    LET s1 == add_all(s, q)
        added_count == Len(s1.playlist) - Len(s.playlist)
    IN IF added_count > 0
       THEN IF s1.sel = NoSel THEN SelectFirst(dump(s1)) ELSE dump(s1)
       ELSE s1

clear_songs_list(s) ==
    LET s1 == IF s.player # None THEN stop_song(s) ELSE s
    IN dump([s1 EXCEPT !.playlist = <<>>, !.tree = <<>>, !.sel = NoSel])

\* the fields __init__ sets before load_saved_playlist(), in a session that
\* finds the playlist file st and the audio files ms gone
NewApp(st, ms) ==
    [playlist |-> <<>>, tree |-> <<>>, sel |-> NoSel,
     current_index |-> 0, index_to_play |-> 0, current_index_playing |-> 0,
     paused |-> FALSE, player |-> None, current_song_length |-> 0,
     released |-> {}, nWait |-> 0, nProg |-> 0, nEnd |-> 0, advances |-> 0,
     stored |-> st, missing |-> ms, exc |-> "none", set_time |-> -1]

add_song_to_list(s, path) ==
    IF path \in s.missing
    THEN s
    ELSE [s EXCEPT !.playlist = Append(s.playlist, path),
                   !.tree = Append(s.tree, Row(path))]

\* for path in data.get("playlist", []): if os.path.exists(path): ...
RECURSIVE load_paths(_, _)
load_paths(s, q) ==
    IF q = <<>> THEN s
    ELSE load_paths(IF Head(q) \notin s.missing THEN add_song_to_list(s, Head(q))
                    ELSE s,
                    Tail(q))

load_saved_playlist(s) == SelectFirst(dump(load_paths(s, s.stored)))

load_playlist_from_file(s, q) ==
    SelectFirst(add_all([s EXCEPT !.playlist = <<>>, !.tree = <<>>, !.sel = NoSel], q))

\* delete_current_song that drops the playing handle without stop_song()
delete_current_song_no_stop(s) ==
    IF s.sel = NoSel \/ ~InRange(s.sel, s.playlist)
    THEN s
    ELSE LET idx == s.sel
             was_playing_deleted == s.player # None /\ s.current_index_playing = idx
             s1 == IF was_playing_deleted
                   THEN [s EXCEPT !.released = Drop(s), !.player = None, !.paused = FALSE]
                   ELSE s
             s2 == [s1 EXCEPT !.playlist = RemoveAt(s1.playlist, idx + 1),
                              !.tree = RemoveAt(s1.tree, idx + 1),
                              !.sel = NoSel]
             s3 == IF s2.player # None /\ s2.current_index_playing > idx
                   THEN [s2 EXCEPT !.current_index_playing = s2.current_index_playing - 1]
                   ELSE s2
         IN dump(IF Len(s3.playlist) > 0
                 THEN LET new_index == IF idx < Len(s3.playlist) THEN idx
                                       ELSE Len(s3.playlist) - 1
                      IN [s3 EXCEPT !.current_index = new_index,
                                    !.current_index_playing =
                                        IF was_playing_deleted THEN new_index
                                        ELSE s3.current_index_playing,
                                    !.sel = new_index]
                 ELSE [s3 EXCEPT !.current_index = 0, !.current_index_playing = 0])

delete_current_song(s) ==
    IF s.sel = NoSel \/ ~InRange(s.sel, s.playlist)
    THEN s
    ELSE LET idx == s.sel
             was_playing_deleted == s.player # None /\ s.current_index_playing = idx
             s1 == IF was_playing_deleted
                   THEN LET t == stop_song(s)
                        IN [t EXCEPT !.released = Drop(t), !.player = None]
                   ELSE s
             s2 == [s1 EXCEPT !.playlist = RemoveAt(s1.playlist, idx + 1),
                              !.tree = RemoveAt(s1.tree, idx + 1),
                              !.sel = NoSel]
             s3 == IF s2.player # None /\ s2.current_index_playing > idx
                   THEN [s2 EXCEPT !.current_index_playing = s2.current_index_playing - 1]
                   ELSE s2
         IN dump(IF Len(s3.playlist) > 0
                 THEN LET new_index == IF idx < Len(s3.playlist) THEN idx
                                       ELSE Len(s3.playlist) - 1
                      IN [s3 EXCEPT !.current_index = new_index,
                                    !.current_index_playing =
                                        IF was_playing_deleted THEN new_index
                                        ELSE s3.current_index_playing,
                                    !.sel = new_index]
                 ELSE [s3 EXCEPT !.current_index = 0, !.current_index_playing = 0])

\* the remap with the upper end of the shifted span left out
Remap_strict(i, old_index, new_index) ==
    IF i = old_index THEN new_index
    ELSE IF old_index < i /\ i < new_index THEN i - 1
    ELSE IF new_index <= i /\ i < old_index THEN i + 1
    ELSE i

\* the remap applied to current_index and to current_index_playing
Remap(i, old_index, new_index) ==
    IF i = old_index THEN new_index
    ELSE IF old_index < i /\ i <= new_index THEN i - 1
    ELSE IF new_index <= i /\ i < old_index THEN i + 1
    ELSE i

move_song(s, old_index, new_index) ==
    IF old_index = new_index
       \/ ~InRange(old_index, s.playlist) \/ ~InRange(new_index, s.playlist)
    THEN s
    ELSE LET \* the tree is rebuilt from the row values: the tags are gone
             values == [i \in 1..Len(s.tree) |-> [s.tree[i] EXCEPT !.tag = FALSE]]
             s1 == [s EXCEPT
                      !.playlist = InsertAt(RemoveAt(s.playlist, old_index + 1),
                                            new_index + 1, s.playlist[old_index + 1]),
                      !.tree = InsertAt(RemoveAt(values, old_index + 1),
                                        new_index + 1, values[old_index + 1]),
                      !.current_index = Remap(s.current_index, old_index, new_index),
                      !.current_index_playing =
                          Remap(s.current_index_playing, old_index, new_index),
                      !.sel = new_index]
         IN dump(IF s1.player # None
                 THEN IF InRange(s1.current_index_playing, s1.playlist)
                      THEN mark_playing_item(s1, s1.current_index_playing)
                      ELSE clear_playing_mark(s1)
                 ELSE LET s2 == clear_stop_mark(s1)
                      IN IF InRange(s2.current_index_playing, s2.playlist)
                         THEN mark_stopped_item(s2, s2.current_index_playing)
                         ELSE s2)

move_selected_up(s) ==
    IF s.sel # NoSel /\ s.sel > 0 THEN move_song(s, s.sel, s.sel - 1) ELSE s

move_selected_down(s) ==
    IF s.sel # NoSel /\ s.sel < Len(s.playlist) - 1
    THEN move_song(s, s.sel, s.sel + 1) ELSE s

\* ------------------------------------------------------------ actions ---
\* the fields of the application object after the handler
Core(s) ==
    /\ playlist' = s.playlist
    /\ tree' = s.tree
    /\ sel' = s.sel
    /\ current_index' = s.current_index
    /\ index_to_play' = s.index_to_play
    /\ current_index_playing' = s.current_index_playing
    /\ paused' = s.paused
    /\ player' = s.player
    /\ current_song_length' = s.current_song_length
    /\ released' = s.released

\* Spec: the handler's result, the timer queue and the disk not tracked
Do(s) ==
    /\ UNCHANGED timers
    /\ UNCHANGED disk
    /\ Core(s)

\* what a playlist file, a dialog selection or a drop can hold
PlaylistFiles == SeqsUpTo(MaxLen)
Drops == {q \in SeqsUpTo(1) : Len(q) > 0}

\* __init__ ends with load_saved_playlist(): the playlist of the last
\* session is loaded and its first row selected.
Init ==
    \E q \in PlaylistFiles :
        /\ playlist = q
        /\ tree = [i \in 1..Len(q) |-> Row(q[i])]
        /\ sel = IF Len(q) > 0 THEN 0 ELSE NoSel
        /\ current_index = 0
        /\ index_to_play = 0
        /\ current_index_playing = 0
        /\ paused = FALSE
        /\ player = None
        /\ current_song_length = 0
        /\ released = {}
        /\ nWait = 0 /\ nProg = 0 /\ nEnd = 0 /\ advances = 0
        /\ stored = <<>> /\ missing = {}

\* a click on a row of the tree (selectmode "browse")
SelectRow ==
    \E i \in 0..(Len(tree) - 1) :
        /\ i # sel
        /\ Do([St EXCEPT !.sel = i])
PlaySelected == \E o \in Outcomes : /\ Do(play_selected(St, o))
Pause == /\ Do(pause_song(St))
Stop == /\ Do(stop_song(St))
Skip == \E d \in Steps, o \in Outcomes : /\ Do(skip(St, d, o))
AddSongs ==
    \E fs \in SUBSET Tracks :
        /\ fs # {}
        /\ Len(playlist) + Cardinality(fs) <= MaxLen
        /\ Do(add_songs(St, fs))
AddFolder ==
    \E fs \in SUBSET Tracks :
        /\ Len(playlist) + Cardinality(fs) <= MaxLen
        /\ Do(add_folder(St, fs))
HandleDrop ==
    \E q \in Drops :
        /\ Len(playlist) + Len(q) <= MaxLen
        /\ Do(handle_drop1(St, q))
Delete == /\ Do(delete_current_song(St))
Clear == /\ Do(clear_songs_list(St))
LoadPlaylist == \E q \in PlaylistFiles : /\ Do(load_playlist_from_file(St, q))
MoveUp == /\ Do(move_selected_up(St))
MoveDown == /\ Do(move_selected_down(St))

\* the engine, on its own thread
EngineStarts ==
    /\ player # None /\ player.state = "opening"
    /\ Do([St EXCEPT !.player.state = "playing"])
EngineFails ==
    /\ player # None /\ player.state = "opening"
    /\ Do([St EXCEPT !.player.state = "error"])
EngineTick ==
    /\ player # None /\ player.state = "playing" /\ player.pos < MaxPos * 1000
    /\ Do([St EXCEPT !.player.pos = player.pos + 1000])
EngineEnds ==
    /\ player # None /\ player.state = "playing"
    /\ Do([St EXCEPT !.player.state = "ended", !.player.pos = 0])

\* a pending timer callback fires
FireWait == \E o \in Outcomes : /\ Do(wait_for_playing_and_update(St, o))
FireProgress == \E o \in Outcomes : /\ Do(update_progress(St, o))
FireEnd == \E o \in Outcomes : /\ Do(check_song_end(St, o))

Next ==
    \/ SelectRow \/ PlaySelected \/ Pause \/ Stop \/ Skip
    \/ AddSongs \/ AddFolder \/ HandleDrop \/ Delete \/ Clear \/ LoadPlaylist
    \/ MoveUp \/ MoveDown
    \/ EngineStarts \/ EngineFails \/ EngineTick \/ EngineEnds
    \/ FireWait \/ FireProgress \/ FireEnd

Spec == Init /\ [][Next]_vars

\* ------------------------------------------------------------ timers ----
\* SpecTimers: the transport buttons, the engine and the Tk timer queue, on
\* the playlist loaded at start.  A handler arms callbacks (self.after), the
\* pending callbacks fire in any order; at most MaxTimers callbacks of each
\* kind are pending.
DoTimers(s) ==
    /\ s.nWait <= MaxTimers /\ s.nProg <= MaxTimers /\ s.nEnd <= MaxTimers
    /\ nWait' = s.nWait
    /\ nProg' = s.nProg
    /\ nEnd' = s.nEnd
    /\ advances' = s.advances
    /\ UNCHANGED disk
    /\ Core(s)

TSelectRow ==
    \E i \in 0..(Len(tree) - 1) :
        /\ i # sel
        /\ DoTimers([St EXCEPT !.sel = i])
TPlaySelected == \E o \in Outcomes : /\ DoTimers(play_selected(St, o))
TPause == /\ DoTimers(pause_song(St))
TStop == /\ DoTimers(stop_song(St))
TSkip == \E d \in Steps, o \in Outcomes : /\ DoTimers(skip(St, d, o))
TEngineStarts ==
    /\ player # None /\ player.state = "opening"
    /\ DoTimers([St EXCEPT !.player.state = "playing"])
TEngineFails ==
    /\ player # None /\ player.state = "opening"
    /\ DoTimers([St EXCEPT !.player.state = "error"])
TEngineTick ==
    /\ player # None /\ player.state = "playing" /\ player.pos < MaxPos * 1000
    /\ DoTimers([St EXCEPT !.player.pos = player.pos + 1000])
\* a transition of the handle into Ended
TEngineEnds ==
    /\ player # None /\ player.state = "playing"
    /\ DoTimers([St EXCEPT !.player.state = "ended", !.player.pos = 0,
                           !.advances = 0])
TFireWait ==
    \E o \in Outcomes :
        /\ nWait > 0
        /\ DoTimers(wait_for_playing_and_update([St EXCEPT !.nWait = nWait - 1], o))
TFireProgress ==
    \E o \in Outcomes :
        /\ nProg > 0
        /\ DoTimers(update_progress([St EXCEPT !.nProg = nProg - 1], o))
TFireEnd ==
    \E o \in Outcomes :
        /\ nEnd > 0
        /\ DoTimers(check_song_end([St EXCEPT !.nEnd = nEnd - 1], o))

NextTimers ==
    \/ TSelectRow \/ TPlaySelected \/ TPause \/ TStop \/ TSkip
    \/ TEngineStarts \/ TEngineFails \/ TEngineTick \/ TEngineEnds
    \/ TFireWait \/ TFireProgress \/ TFireEnd

SpecTimers == Init /\ [][NextTimers]_vars

\* ------------------------------------------------------------ store -----
\* SpecStore: the playlist and the playlist file over several sessions.
\* Audio files may be deleted from the disk; a new session starts from the
\* playlist file the last one left.  A missing playlist file is read as an
\* empty playlist.
DoStore(s) ==
    /\ stored' = s.stored
    /\ UNCHANGED missing
    /\ UNCHANGED timers
    /\ Core(s)

\* what the dialogs and a drop offer: files that exist
Present == Tracks \ missing

InitStore ==
    \E st \in PlaylistFiles, ms \in SUBSET Tracks :
        LET s == load_saved_playlist(NewApp(st, ms))
        IN /\ playlist = s.playlist
           /\ tree = s.tree
           /\ sel = s.sel
           /\ current_index = s.current_index
           /\ index_to_play = s.index_to_play
           /\ current_index_playing = s.current_index_playing
           /\ paused = s.paused
           /\ player = s.player
           /\ current_song_length = s.current_song_length
           /\ released = s.released
           /\ nWait = 0 /\ nProg = 0 /\ nEnd = 0 /\ advances = 0
           /\ stored = s.stored
           /\ missing = s.missing

SSelectRow ==
    \E i \in 0..(Len(tree) - 1) :
        /\ i # sel
        /\ DoStore([St EXCEPT !.sel = i])
SPlaySelected == /\ DoStore(play_selected(St, "ok"))
SAddSongs ==
    \E fs \in SUBSET Present :
        /\ fs # {}
        /\ Len(playlist) + Cardinality(fs) <= MaxLen
        /\ DoStore(add_songs(St, fs))
SAddFolder ==
    \E fs \in SUBSET Present :
        /\ Len(playlist) + Cardinality(fs) <= MaxLen
        /\ DoStore(add_folder(St, fs))
SHandleDrop ==
    \E q \in Drops :
        /\ Len(playlist) + Len(q) <= MaxLen
        /\ q[1] \in Present
        /\ DoStore(handle_drop1(St, q))
SDelete == /\ DoStore(delete_current_song(St))
SClear == /\ DoStore(clear_songs_list(St))
SLoadPlaylist == \E q \in PlaylistFiles : /\ DoStore(load_playlist_from_file(St, q))
SMoveUp == /\ DoStore(move_selected_up(St))
SMoveDown == /\ DoStore(move_selected_down(St))
\* an audio file is deleted from the disk
SRemoveFile ==
    \E f \in Present :
        /\ missing' = missing \cup {f}
        /\ UNCHANGED <<playlist, tree, sel, current_index, index_to_play,
                       current_index_playing, paused, player,
                       current_song_length, released, stored>>
        /\ UNCHANGED timers
\* the application is closed and started again
SRestart == /\ DoStore(load_saved_playlist(NewApp(stored, missing)))

NextStore ==
    \/ SSelectRow \/ SPlaySelected
    \/ SAddSongs \/ SAddFolder \/ SHandleDrop \/ SDelete \/ SClear
    \/ SLoadPlaylist \/ SMoveUp \/ SMoveDown
    \/ SRemoveFile \/ SRestart

SpecStore == InitStore /\ [][NextStore]_vars

\* ------------------------------------------------------------ seek ------
\* SpecSeek: clicks on the progress bar while a track of any duration up to
\* MaxDur seconds is loaded: the session has played row 0 of a one-track
\* playlist and the engine has started the handle.
InitSeek ==
    \E d \in 0..MaxDur :
        /\ playlist = <<1>>
        /\ tree = <<[title |-> 1, prefix |-> <<"play">>, tag |-> TRUE]>>
        /\ sel = 0
        /\ current_index = 0
        /\ index_to_play = 0
        /\ current_index_playing = 0
        /\ paused = FALSE
        /\ player = [track |-> 1, state |-> "playing", pos |-> 0]
        /\ current_song_length = d
        /\ released = {}
        /\ nWait = 0 /\ nProg = 0 /\ nEnd = 0 /\ advances = 0
        /\ stored = <<>> /\ missing = {}

Seek ==
    \E w \in 1..MaxWidth :
        \E x \in 0..w :
            /\ Do(seek_progress(St, x, w, "ok"))

NextSeek == Seek \/ Pause \/ Stop

SpecSeek == InitSeek /\ [][NextSeek]_vars

\* ------------------------------------------------------------ marks -----
\* SpecMarks: the three marking steps and the two clearing steps applied to
\* the rows of a freshly loaded playlist.  The title column is the tag title
\* or the file name of the track (add_song_to_list); here the title of track
\* 2 itself begins with any run of up to MaxGlyphs marker glyphs ("▶ ", "⏸ "
\* or "■ "), which the marking code cannot tell from its own markers.
Markers == {"play", "pause", "stop"}

RECURSIVE GlyphSeqs(_)
GlyphSeqs(n) ==
    IF n = 0 THEN {<<>>}
    ELSE LET shorter == GlyphSeqs(n - 1)
         IN shorter \cup {<<m>> \o p : m \in Markers,
                                      p \in {x \in shorter : Len(x) = n - 1}}

\* the row add_song_to_list inserts for a track whose title starts with g
TitledRow(t, g) == [Row(t) EXCEPT !.prefix = g]

Indexes == 0..(MaxLen - 1)

InitMarks ==
    \E q \in PlaylistFiles :
        \E g \in GlyphSeqs(MaxGlyphs) :
            /\ playlist = q
            /\ tree = [i \in 1..Len(q) |->
                         IF q[i] = 2 THEN TitledRow(2, g) ELSE Row(q[i])]
            /\ sel = IF Len(q) > 0 THEN 0 ELSE NoSel
            /\ current_index = 0
            /\ index_to_play = 0
            /\ current_index_playing = 0
            /\ paused = FALSE
            /\ player = None
            /\ current_song_length = 0
            /\ released = {}
            /\ nWait = 0 /\ nProg = 0 /\ nEnd = 0 /\ advances = 0
            /\ stored = <<>> /\ missing = {}

MarkPlaying == \E i \in Indexes : /\ Do(mark_playing_item(St, i))
MarkPause == \E i \in Indexes : /\ Do(mark_pause_item(St, i))
MarkStopped == \E i \in Indexes : /\ Do(mark_stopped_item(St, i))
ClearPlayingMark == /\ Do(clear_playing_mark(St))
ClearStopMark == /\ Do(clear_stop_mark(St))

NextMarks ==
    \/ MarkPlaying \/ MarkPause \/ MarkStopped
    \/ ClearPlayingMark \/ ClearStopMark

SpecMarks == InitMarks /\ [][NextMarks]_vars

\* ------------------------------------------------------------ mp3player --
\* SpecSleep: mp3player.py, the variant of the player with module-level
\* state and the "Pause on sleep" listener.  Its marker helpers, stop_song
\* and pause_song are statement for statement those of AudioPlayer.py
\* without the try/except; play_song and check_song_end differ.
mp3_stop_song(s) == stop_song(s)

\* play_song of mp3player.py: o = "raise" is MP3(song) raising on a file
\* mutagen cannot read as MP3, after the handle was created and started.
mp3_play_song(s, o) ==
    IF s.player # None /\ s.player.state = "playing"
       /\ s.current_index_playing = s.index_to_play
    THEN s
    ELSE LET s1 == clear_stop_mark(mp3_stop_song(s))
             itp == IF s1.index_to_play < 0 THEN s1.current_index ELSE s1.index_to_play
             s2 == [s1 EXCEPT !.index_to_play = itp, !.current_index_playing = itp]
         IN IF ~InRange(itp, s2.playlist)
            THEN [s2 EXCEPT !.exc = "IndexError"]
            ELSE LET song == s2.playlist[itp + 1]
                     s3 == [s2 EXCEPT !.released = Drop(s2),
                                      !.player = NewHandle(song)]
                 IN IF o = "raise"
                    THEN [s3 EXCEPT !.exc = "MutagenError"]
                    ELSE mark_playing_item(
                             [s3 EXCEPT !.current_song_length = get_audio_duration(song),
                                        !.nWait = s3.nWait + 1,
                                        !.nEnd = s3.nEnd + 1],
                             s3.current_index_playing)

mp3_skip(s, step, o) ==
    IF Len(s.playlist) = 0
    THEN [s EXCEPT !.exc = "ZeroDivisionError"]
    ELSE mp3_play_song([s EXCEPT !.index_to_play =
                            (s.index_to_play + step) % Len(s.playlist)], o)

mp3_update_progress(s, o) ==
    IF s.player # None /\ s.player.state = "playing"
    THEN IF s.player.pos \div 1000 < s.current_song_length
         THEN [s EXCEPT !.nProg = s.nProg + 1]
         ELSE s
    ELSE IF s.player # None /\ s.player.state = "ended"
         THEN IF ~s.paused /\ s.current_index_playing < Len(s.playlist) - 1
              THEN mp3_skip([s EXCEPT !.advances = s.advances + 1], 1, o)
              ELSE s
         ELSE s

mp3_wait_for_playing_and_update(s, o) ==
    IF s.player # None /\ s.player.state = "playing"
    THEN mp3_update_progress(s, o)
    ELSE [s EXCEPT !.nWait = s.nWait + 1]

\* after the last track: current_index_playing = 0; play_song(), which
\* plays index_to_play
mp3_check_song_end(s, o) ==
    IF s.player # None /\ s.player.state = "ended"
    THEN IF ~s.paused
         THEN IF s.current_index_playing < Len(s.playlist) - 1
              THEN mp3_skip([s EXCEPT !.advances = s.advances + 1], 1, o)
              ELSE IF Len(s.playlist) > 0
                   THEN mp3_play_song([s EXCEPT !.advances = s.advances + 1,
                                                !.current_index_playing = 0], o)
                   ELSE s
         ELSE s
    ELSE [s EXCEPT !.nEnd = s.nEnd + 1]

mp3_pause_song(s) ==
    IF s.player = None
    THEN s
    ELSE LET s1 == [s EXCEPT !.player = IF s.paused THEN vlc_play(s.player)
                                        ELSE vlc_pause(s.player),
                             !.paused = ~s.paused]
         IN IF s1.paused
            THEN mark_pause_item(s1, s1.current_index_playing)
            ELSE mp3_wait_for_playing_and_update(
                     mark_playing_item(s1, s1.current_index_playing), "ok")

mp3_play_selected(s, o) ==
    LET s1 == IF s.sel # NoSel THEN [s EXCEPT !.current_index = s.sel] ELSE s
    IN IF s1.paused /\ s1.current_index_playing = s1.current_index
       THEN mp3_wait_for_playing_and_update(mp3_pause_song(s1), "ok")
       ELSE IF s1.sel # NoSel
            THEN mp3_play_song([s1 EXCEPT !.index_to_play = s1.current_index], o)
            ELSE s1

\* SleepListener.handleSleep_: the observer of NSWorkspaceWillSleepNotification
handleSleep_(s) == mp3_pause_song(s)

InitSleep ==
    \E q \in PlaylistFiles :
        /\ playlist = q
        /\ tree = [i \in 1..Len(q) |-> Row(q[i])]
        /\ sel = IF Len(q) > 0 THEN 0 ELSE NoSel
        /\ current_index = 0
        /\ index_to_play = -1
        /\ current_index_playing = -1
        /\ paused = FALSE
        /\ player = None
        /\ current_song_length = 0
        /\ released = {}
        /\ nWait = 0 /\ nProg = 0 /\ nEnd = 0 /\ advances = 0
        /\ stored = <<>> /\ missing = {}

MPlaySelected == \E o \in Outcomes : /\ Do(mp3_play_selected(St, o))
MPause == /\ Do(mp3_pause_song(St))
MStop == /\ Do(mp3_stop_song(St))
MSkip == \E d \in Steps, o \in Outcomes : /\ Do(mp3_skip(St, d, o))
MFireWait == \E o \in Outcomes : /\ Do(mp3_wait_for_playing_and_update(St, o))
MFireProgress == \E o \in Outcomes : /\ Do(mp3_update_progress(St, o))
MFireEnd == \E o \in Outcomes : /\ Do(mp3_check_song_end(St, o))
\* the system is about to sleep: the notification centre calls the observer
HandleSleep == /\ Do(handleSleep_(St))

NextSleep ==
    \/ SelectRow \/ MPlaySelected \/ MPause \/ MStop \/ MSkip
    \/ EngineStarts \/ EngineFails \/ EngineTick \/ EngineEnds
    \/ MFireWait \/ MFireProgress \/ MFireEnd
    \/ HandleSleep

SpecSleep == InitSleep /\ [][NextSleep]_vars

\* ------------------------------------------------------------ claims ----
Live(h) == h.state \in LiveStates
Marked(r) == r.prefix # <<>> \/ r.tag
N == Len(playlist)

\* C1: whenever the playlist is non-empty, current_index_playing indexes an
\* existing playlist entry: 0 <= current_index_playing < len(playlist).
C1_PlayingIndexInRange ==
    N > 0 => InRange(current_index_playing, playlist)

\* C2: at most one engine handle is live (opening, playing or paused): the
\* handles the application has dropped are stopped, so only self.player can
\* be live.
C2_AtMostOneLiveHandle ==
    Cardinality({h \in released : Live(h)}) + (IF Live(player) THEN 1 ELSE 0) <= 1

C2_Witness ==
    /\ N >= 2 /\ current_index_playing = 1
    /\ player.state = "playing" /\ player.track = playlist[2]

\* C3: whenever a handle exists, the track loaded in it is the track stored
\* at playlist[current_index_playing].
C3_HandleBoundToPlayingIndex ==
    player # None =>
        /\ InRange(current_index_playing, playlist)
        /\ playlist[current_index_playing + 1] = player.track

\* C4: for every valid index, Play(index) followed immediately by Stop()
\* leaves player = None, paused = FALSE and exactly the row at index marked,
\* with the stopped marker.
C4_PlayThenStop ==
    \A i \in 0..(N - 1), o \in Outcomes :
        LET r == stop_song(Play(St, i, o))
        IN /\ r.player = None
           /\ ~r.paused
           /\ \A k \in 1..Len(r.tree) : Marked(r.tree[k]) <=> k - 1 = i
           /\ r.tree[i + 1].prefix = <<"stop">>

\* C5: with a non-empty playlist of length n, Skip(d) makes
\* (current_index_playing + d) mod n the playing index and, when the engine
\* starts the handle, loads the track at that index.
C5_SkipFromPlayingIndex ==
    N > 0 =>
        \A d \in Steps, o \in Outcomes :
            LET r == skip(St, d, o)
                target == (current_index_playing + d) % N
            IN /\ r.current_index_playing = target
               /\ o = "ok" => r.player # None /\ r.player.track = playlist[target + 1]

\* C6: for n >= 2 tracks, Skip(+1) right after Play(n-1) makes index 0 the
\* playing index and Skip(-1) right after Play(0) makes index n-1 the playing
\* index; the handle the engine starts is bound to the track at that index.
IsPlayingAt(r, i, o) ==
    /\ r.current_index_playing = i
    /\ r.index_to_play = i
    /\ o = "ok" => /\ r.player = NewHandle(r.playlist[i + 1])
                   /\ r.tree[i + 1].prefix = <<"play">>
                   /\ r.released = {}

C6_SkipWraps ==
    N >= 2 =>
        \A o1 \in Outcomes, o2 \in Outcomes :
            /\ IsPlayingAt(skip(Play(St, N - 1, o1), 1, o2), 0, o2)
            /\ IsPlayingAt(skip(Play(St, 0, o1), -1, o2), N - 1, o2)

C6_Witness ==
    /\ N = 2 /\ current_index_playing = 1 /\ index_to_play = 1
    /\ player.state = "playing" /\ player.track = playlist[2]
    /\ playlist[1] # playlist[2]
    /\ skip(St, 1, "ok").player = NewHandle(playlist[1])

\* C7 as stated: for a single-track playlist whose track is playing, Skip(+1)
\* and Skip(-1) stop the old handle and start a new handle for the same
\* track from offset 0.
SingleTrackPlaying ==
    /\ N = 1 /\ current_index_playing = 0
    /\ player # None /\ player.track = playlist[1]

C7_SkipRestartsSingleTrack ==
    SingleTrackPlaying /\ player.state = "playing" =>
        \A d \in Steps :
            LET r == skip(St, d, "ok")
            IN /\ r.index_to_play = 0 /\ r.current_index_playing = 0
               /\ r.player = NewHandle(playlist[1])

\* C7 amended: both skips target index 0; while the engine state is Playing
\* the skip is a no-op (the same handle goes on from its position, nothing
\* is restarted); in every other engine state the old handle is stopped and
\* a new handle for the same track starts from offset 0.
C7_SkipSingleTrack ==
    SingleTrackPlaying =>
        \A d \in Steps :
            LET r == skip(St, d, "ok")
            IN /\ r.index_to_play = 0 /\ r.current_index_playing = 0
               /\ r.released = {}
               /\ IF player.state = "playing"
                  THEN r = [St EXCEPT !.index_to_play = 0]
                  ELSE r.player = NewHandle(playlist[1])

C7_Witness ==
    SingleTrackPlaying /\ player.state = "playing" /\ player.pos > 0

\* C8: DeleteAt(i) with i < current_index_playing reduces
\* current_index_playing by exactly 1 and leaves the handle, its engine state
\* and the paused flag unchanged, whether or not a handle exists.
C8_DeleteBeforePlaying ==
    (sel # NoSel /\ sel < current_index_playing
     /\ InRange(current_index_playing, playlist)) =>
        LET r == delete_current_song(St)
        IN /\ r.current_index_playing = current_index_playing - 1
           /\ r.player = player
           /\ r.paused = paused

\* C9: DeleteAt(current_index_playing) while a handle is bound there stops
\* the engine and releases the handle (player = None, paused = FALSE, no
\* dropped handle is live); afterwards current_index_playing is the same
\* slot, now holding the next track, or the new last index if the deleted
\* entry was last, or 0 with an empty playlist.
DeletesPlaying ==
    /\ player # None /\ sel # NoSel /\ sel = current_index_playing
    /\ InRange(sel, playlist)

C9_DeletePlaying ==
    DeletesPlaying =>
        LET r == delete_current_song(St)
        IN /\ r.player = None /\ ~r.paused
           /\ \A h \in r.released : ~Live(h)
           /\ Len(r.playlist) = N - 1
           /\ IF N = 1
              THEN r.current_index_playing = 0
              ELSE IF sel < N - 1
                   THEN /\ r.current_index_playing = sel
                        /\ r.playlist[sel + 1] = playlist[sel + 2]
                   ELSE /\ r.current_index_playing = N - 2
                        /\ r.playlist[N - 1] = playlist[N - 1]

C9_Witness ==
    /\ DeletesPlaying /\ N = 2 /\ sel = 0 /\ player.state = "playing"
    /\ playlist[1] # playlist[2]
    /\ delete_current_song(St).playlist = <<playlist[2]>>
    /\ delete_current_song(St).player = None

\* C10: for all in-range a and b, move_song(a, b) followed by move_song(b, a)
\* restores the playlist order, current_index and current_index_playing.
C10_MoveRoundTrip ==
    \A a \in 0..(N - 1), b \in 0..(N - 1) :
        LET r == move_song(move_song(St, a, b), b, a)
        IN /\ r.playlist = playlist
           /\ r.current_index = current_index
           /\ r.current_index_playing = current_index_playing

C10_Witness ==
    /\ N = 2 /\ playlist[1] # playlist[2]
    /\ current_index_playing = 1 /\ current_index = 0 /\ player # None
    /\ move_song(St, 0, 1).current_index_playing = 0
    /\ move_song(St, 0, 1).current_index = 1
    /\ move_song(St, 0, 1).playlist = <<playlist[2], playlist[1]>>

\* the engine plays the handle of s to its end (EngineStarts, EngineEnds)
Ended(s) == [s EXCEPT !.player.state = "ended", !.player.pos = 0]

OnlyRowMarked(r, i, m) ==
    /\ r.tree[i + 1].prefix = <<m>> /\ r.tree[i + 1].tag
    /\ \A k \in 1..Len(r.tree) : k - 1 # i => ~Marked(r.tree[k])

C12_LastTrackEndStops ==
    /\ N >= 1 =>
           LET e == Ended(Play(St, N - 1, "ok"))
               r == check_song_end(e, "ok")
           IN ~e.paused =>
              /\ r.player = vlc_stop(e.player)
              /\ ~r.paused
              /\ r.current_index_playing = N - 1 /\ r.index_to_play = N - 1
              /\ OnlyRowMarked(r, N - 1, "stop")
              /\ r.nEnd = e.nEnd /\ r.nWait = e.nWait /\ r.nProg = e.nProg
              /\ r.playlist = playlist /\ r.released = released
              /\ update_progress(e, "ok") = e
    /\ (N >= 1 /\ player.state = "ended" /\ ~paused
         /\ current_index_playing = N - 1) =>
           LET r == check_song_end(St, "ok")
           IN /\ r.player = vlc_stop(player)
              /\ OnlyRowMarked(r, N - 1, "stop")
              /\ r.current_index_playing = N - 1
              /\ r.nEnd = nEnd
              /\ update_progress(St, "ok") = St

C12_Witness ==
    /\ N = 1 /\ current_index_playing = 0 /\ ~paused
    /\ player.state = "ended" /\ player.track = playlist[1]
    /\ tree[1].prefix = <<"play">>
    /\ check_song_end(St, "ok").player.state = "stopped"
    /\ check_song_end(St, "ok").tree[1].prefix = <<"stop">>

\* C13: for each transition of a handle into Ended, the end-of-track
\* handling (skip(1) or stop) runs at most once, whatever callbacks of
\* wait_for_playing_and_update, update_progress and check_song_end are
\* pending and in whatever order they fire.
C13_OneAdvancePerEnd == advances <= 1

C13_Witness ==
    /\ advances = 1 /\ nEnd >= 2 /\ nProg >= 1
    /\ player.state = "opening" /\ current_index_playing = 1

\* C14: after Stop(), or after a Play that binds a new handle, a callback
\* that was pending for the previous handle exits when it fires: it does not
\* re-arm itself and changes nothing of the transport state.
AfterStopOrNewPlay ==
    {stop_song(St)} \cup
    {r \in {Play(St, i, "ok") : i \in 0..(N - 1)} : r.player.state = "opening"}

C14_StaleCallbacksExit ==
    player # None =>
        \A r \in AfterStopOrNewPlay :
            /\ nWait > 0 =>
                   LET f == [r EXCEPT !.nWait = r.nWait - 1]
                   IN wait_for_playing_and_update(f, "ok") = f
            /\ nProg > 0 =>
                   LET f == [r EXCEPT !.nProg = r.nProg - 1]
                   IN update_progress(f, "ok") = f
            /\ nEnd > 0 =>
                   LET f == [r EXCEPT !.nEnd = r.nEnd - 1]
                   IN check_song_end(f, "ok") = f

\* C15: when creating or starting the engine handle fails during
\* Play(index), whether vlc raises or the engine goes from Opening to Error,
\* no handle stays bound (player = None), paused = FALSE, no callback was
\* armed for the attempt, no row carries the playing marker and nothing is
\* raised out of the operation.
C15_FailedPlayIsStopped ==
    /\ \A i \in 0..(N - 1) :
           LET r == Play(St, i, "raise")
           IN r # [St EXCEPT !.index_to_play = i] =>
                  /\ r.player = None /\ ~r.paused
                  /\ r.nWait = nWait /\ r.nProg = nProg /\ r.nEnd = nEnd
                  /\ \A k \in 1..Len(r.tree) : ~StartsWith(r.tree[k].prefix, "play")
                  /\ r.exc = "none"
    /\ player.state = "error" =>
           /\ player = None /\ ~paused
           /\ \A k \in 1..Len(tree) : ~StartsWith(tree[k].prefix, "play")

\* C16: no transport or playlist operation raises, and on an empty playlist
\* or without a valid selection Skip, Play, Delete and Move leave all state
\* unchanged.
C16_NoRaiseNoOpOnEmpty ==
    /\ \A d \in Steps, o \in Outcomes : skip(St, d, o).exc = "none"
    /\ \A o \in Outcomes : play_selected(St, o).exc = "none"
    /\ delete_current_song(St).exc = "none"
    /\ move_selected_up(St).exc = "none" /\ move_selected_down(St).exc = "none"
    /\ N = 0 => \A d \in Steps, o \in Outcomes : skip(St, d, o) = St
    /\ (sel = NoSel \/ ~InRange(sel, playlist)) =>
           /\ \A o \in Outcomes : play_selected(St, o) = St
           /\ delete_current_song(St) = St
           /\ move_selected_up(St) = St /\ move_selected_down(St) = St
    /\ \A a \in -1..N, b \in -1..N :
           (~InRange(a, playlist) \/ ~InRange(b, playlist)) => move_song(St, a, b) = St

\* C17: Clear() leaves an empty playlist, no selection, the indices in
\* their empty state (current_index, index_to_play and
\* current_index_playing as __init__ sets them) and no handle.
C17_ClearResetsAll ==
    LET r == clear_songs_list(St)
    IN /\ r.playlist = <<>> /\ r.tree = <<>> /\ r.sel = NoSel
       /\ r.current_index = 0 /\ r.index_to_play = 0
       /\ r.current_index_playing = 0
       /\ r.player = None /\ ~r.paused
       /\ \A h \in r.released : ~Live(h)

\* C18: after every operation that mutates the playlist, the playlist in
\* the playlist file equals the playlist in memory, entry for entry.
C18_StoredIsPlaylist == stored = playlist

\* C19: after add_songs has appended files that exist and persisted, a new
\* session (load_saved_playlist on an empty playlist) reads back exactly the
\* playlist of the old session, in its order, when all its files still
\* exist; entries whose file is gone, then or by the time of the reload, are
\* skipped and the others keep their relative order.  The reloaded playlist
\* is written back and the rows of the tree are its entries.
Surviving(q, ms) == SelectSeq(q, LAMBDA f : f \notin ms)

C19_PersistReload ==
    \A fs \in SUBSET Present :
        (fs # {} /\ N + Cardinality(fs) <= MaxLen) =>
            LET a == add_songs(St, fs)
            IN /\ a.playlist = playlist \o SortedSeq(fs)
               /\ a.stored = a.playlist
               /\ \A ms \in SUBSET Tracks :
                      missing \subseteq ms =>
                          LET r == load_saved_playlist(NewApp(a.stored, ms))
                          IN /\ r.playlist = Surviving(a.playlist, ms)
                             /\ r.stored = r.playlist
                             /\ r.tree = [i \in 1..Len(r.playlist) |->
                                              Row(r.playlist[i])]
                             /\ (\A i \in 1..Len(a.playlist) : a.playlist[i] \notin ms)
                                   => r.playlist = a.playlist

C19_Witness ==
    /\ N = 2 /\ stored = playlist
    /\ playlist[1] \in missing /\ playlist[2] \notin missing
    /\ load_saved_playlist(NewApp(stored, missing)).playlist = <<playlist[2]>>

\* C20: a click at the fraction x / w of the progress bar with a handle
\* present issues set_time with int(duration * x / w) * 1000 ms: a whole
\* number of seconds, the product duration * x / w truncated; a playing or
\* paused handle is then at that position, in the same engine state.  With
\* duration 200 s and fraction 1/2 the position is exactly 100000 ms.
C20_SeekPosition ==
    player # None =>
        \A w \in 1..MaxWidth :
            \A x \in 0..w :
                LET r == seek_progress(St, x, w, "ok")
                    ms == r.set_time
                IN /\ ms >= 0 /\ ms % 1000 = 0
                   /\ ms * w <= current_song_length * x * 1000
                   /\ current_song_length * x * 1000 < (ms + 1000) * w
                   /\ player.state \in {"playing", "paused"} =>
                          r.player = [player EXCEPT !.pos = ms]
                   /\ (current_song_length = 200 /\ 2 * x = w) => ms = 100000
                   /\ r.playlist = playlist /\ r.paused = paused
                   /\ r.current_index_playing = current_index_playing

C20_Witness ==
    /\ current_song_length = 200
    /\ player.state = "playing" /\ player.pos = 100000

\* C21: applying the same marking step (mark_playing_item, mark_pause_item
\* or mark_stopped_item with the same index) twice in a row leaves every
\* row's title prefix and highlight tag exactly as after the first
\* application.
MarkTwice(s, i, m) == mark_item(mark_item(s, i, m), i, m)

C21_MarkIdempotent ==
    \A i \in Indexes :
        \A m \in Markers :
            MarkTwice(St, i, m).tree = mark_item(St, i, m).tree

\* C22: processing a system-sleep notification performs Pause(): a playing
\* track becomes paused, and an already paused player stays paused; a sleep
\* notification never resumes playback.
C22_SleepPauses ==
    LET r == handleSleep_(St)
    IN /\ (player # None /\ player.state = "playing")
             => (r.paused /\ r.player.state = "paused")
       /\ paused => (r.paused /\ r.player.state # "playing")

\* C23: the sleep-notification callback reads and writes no transport state
\* (paused flag, engine handle, row markers) itself; the state change
\* happens in a later step of the scheduler thread.
C23_SleepCallbackWritesNothing ==
    LET r == handleSleep_(St)
    IN /\ r.paused = paused
       /\ r.player = player
       /\ r.tree = tree

\* C24: after a successful Play(index) that is not the already-playing
\* no-op, playingIndex = index, paused = false, the handle is bound to the
\* track at index and started from offset 0, the cached duration is that
\* track's duration, exactly the row at index is marked playing and no other
\* row carries any marker.
AlreadyPlaying(i) ==
    player # None /\ player.state = "playing" /\ current_index_playing = i

C24_PlayEffect ==
    \A i \in 0..(N - 1) :
        ~AlreadyPlaying(i) =>
            LET r == Play(St, i, "ok")
            IN /\ r.exc = "none"
               /\ r.current_index_playing = i
               /\ ~r.paused
               /\ r.player = NewHandle(playlist[i + 1])
               /\ r.current_song_length = get_audio_duration(playlist[i + 1])
               /\ OnlyRowMarked(r, i, "play")

\* Play of another row while a paused handle exists
C24_Witness ==
    /\ N = 2 /\ player # None /\ player.state = "paused" /\ paused
    /\ current_index_playing = 0
    /\ Play(St, 1, "ok").player = NewHandle(playlist[2])

\* C25: Play(index) while the engine state is Playing and
\* current_index_playing = index changes nothing: the handle and its
\* position, current_index_playing, the paused flag, the markers and the
\* pending poll callbacks are unchanged, and no handle is dropped.
C25_PlayNoOp ==
    \A i \in 0..(N - 1) :
        AlreadyPlaying(i) =>
            \A o \in Outcomes :
                LET r == Play(St, i, o)
                IN /\ r.player = player
                   /\ r.current_index_playing = current_index_playing
                   /\ r.paused = paused
                   /\ r.tree = tree
                   /\ r.current_song_length = current_song_length
                   /\ r.nWait = nWait /\ r.nProg = nProg /\ r.nEnd = nEnd
                   /\ r.released = released
                   /\ r.playlist = playlist
                   /\ r.exc = "none"

C25_Witness ==
    /\ AlreadyPlaying(1) /\ player.pos > 0 /\ index_to_play # 1
    /\ Play(St, 1, "ok").player = player

\* C26: Stop() leaves current_index_playing, the selection index and the
\* playlist contents and order unchanged; it changes only the engine state
\* of the handle, the paused flag, the progress display and the row markers.
C26_StopFrame ==
    LET r == stop_song(St)
    IN /\ r.current_index_playing = current_index_playing
       /\ r.current_index = current_index
       /\ r.sel = sel
       /\ r.playlist = playlist
       /\ r.index_to_play = index_to_play
       /\ r.current_song_length = current_song_length
       /\ r.released = released
       /\ r.nWait = nWait /\ r.nProg = nProg /\ r.nEnd = nEnd
       /\ Len(r.tree) = Len(tree)
       /\ \A k \in 1..Len(tree) : r.tree[k].title = tree[k].title
       /\ player = None => r.player = None
       /\ player # None => r.player = vlc_stop(player)

C26_Witness ==
    /\ N = 2 /\ player # None /\ player.state = "playing"
    /\ current_index_playing = 1 /\ current_index = 0
    /\ stop_song(St).player.state = "stopped"
    /\ stop_song(St).tree[2].prefix = <<"stop">>

\* C27: with a handle, one pause_song flips the engine's playback and the
\* paused flag together and marks the row at current_index_playing paused
\* when it pauses, playing when it resumes; without a handle it changes
\* nothing; two consecutive invocations return the paused flag, the engine
\* state and the markers to their values before the first.
C27_PauseToggle ==
    /\ player = None => pause_song(St) = St
    /\ player # None =>
         LET r == pause_song(St)
             rr == pause_song(r)
         IN /\ r.paused = ~paused
            /\ r.paused => r.player.state = "paused"
            /\ ~r.paused => r.player.state = "playing"
            /\ InRange(current_index_playing, playlist) =>
                 r.tree[current_index_playing + 1].prefix =
                     IF r.paused THEN <<"pause">> ELSE <<"play">>
            /\ rr.paused = paused
            /\ rr.player.state = player.state
            /\ rr.tree = tree

ShowsAt(r, m) ==
    /\ InRange(r.current_index_playing, r.tree)
    /\ r.tree[r.current_index_playing + 1].prefix = <<m>>

NoMarker(r) == \A k \in 1..Len(r.tree) : r.tree[k].prefix = <<>>

NothingPlayed == player = None /\ released = {} /\ NoMarker(St)

MarkerAgrees(r) ==
    /\ ShowsAt(r, "play") =>
           r.player # None /\ ~r.paused /\ r.player.state # "stopped"
    /\ InRange(r.current_index_playing, r.tree) =>
           (ShowsAt(r, "pause") <=> r.paused)
    /\ (r.player # None /\ r.player.state = "stopped"
        /\ InRange(r.current_index_playing, r.tree)) => ShowsAt(r, "stop")
    /\ \A k \in 1..Len(r.tree) :
           k - 1 # r.current_index_playing => r.tree[k].prefix = <<>>
    /\ NothingPlayed => NoMarker(r)

C30_MarkerAfterMutation ==
    /\ \A a \in 0..(N - 1), b \in 0..(N - 1) :
           a # b => MarkerAgrees(move_song(St, a, b))
    /\ (sel # NoSel /\ InRange(sel, playlist)) =>
           MarkerAgrees(delete_current_song(St))

\* C31: in every reachable state at most one row carries a marker (playing,
\* paused or stopped) or the highlight tag, and a row that carries one is the
\* row at current_index_playing.
C31_OneMarkedRowAtPlayingIndex ==
    \A k \in 1..Len(tree) :
        Marked(tree[k]) => k - 1 = current_index_playing

\* C32: Seek never issues an engine position outside
\* [0, current_song_length * 1000] ms, for every click coordinate, including
\* coordinates below 0 or beyond the bar width (the event of a click that
\* arrives while the pointer is grabbed by the bar and outside it).
Clicks(w) == -1..(w + 1)

C32_SeekClamped ==
    player # None =>
        \A w \in 1..MaxWidth :
            \A x \in Clicks(w) :
                LET ms == seek_progress(St, x, w, "ok").set_time
                IN 0 <= ms /\ ms <= current_song_length * 1000

\* C33: the start-gate loop (wait_for_playing_and_update) terminates: a
\* pending callback that observes the engine Playing hands off to
\* update_progress and does not re-arm itself; while the engine cannot reach
\* Playing on its own (no handle, open error, stopped) the retries are
\* bounded, so a retry never leaves the program in the very state it fired
\* in, with the same callback pending again.
CannotStart == player = None \/ player.state \in {"error", "stopped"}

C33_StartGateTerminates ==
    nWait > 0 =>
        LET f == [St EXCEPT !.nWait = nWait - 1]
            r == wait_for_playing_and_update(f, "ok")
        IN /\ (player # None /\ player.state = "playing") =>
                  r.nWait = nWait - 1
           /\ CannotStart => r # St

\* C34: while the paused flag is set the poller is suspended: a firing
\* update_progress does not re-arm itself (the branch that re-arms is the one
\* that writes the progress value and the time label), and no callback
\* performs the end-of-track auto-advance (skip or stop).
NoAdvance(r) ==
    /\ r.advances = advances
    /\ r.player = player
    /\ r.current_index_playing = current_index_playing

C34_PausedPollerSuspended ==
    paused =>
        \A o \in Outcomes :
            /\ update_progress(St, o).nProg = nProg
            /\ NoAdvance(update_progress(St, o))
            /\ NoAdvance(check_song_end(St, o))
            /\ NoAdvance(wait_for_playing_and_update(St, o))

\* C35: in mp3player.py, when the track at the last playlist index reaches
\* Ended while not paused and the playlist is not empty, playback wraps
\* around: the track at index 0 is started and becomes the playing track
\* (current_index_playing = 0, row 0 alone marked playing).
LastTrackEnded ==
    /\ N >= 1 /\ current_index_playing = N - 1 /\ ~paused
    /\ player # None /\ player.state = "ended"

C35_Mp3WrapsToFirst ==
    LastTrackEnded =>
        LET r == mp3_check_song_end(St, "ok")
        IN /\ r.current_index_playing = 0
           /\ r.player = NewHandle(playlist[1])
           /\ OnlyRowMarked(r, 0, "play")

\* C36: in every reachable state the paused flag is true only if a handle
\* exists and the engine is in its Paused state; pressing Pause after Stop,
\* after the last track has ended or after Clear does not set the flag.
C36_PausedMeansEnginePaused ==
    paused => (player # None /\ player.state = "paused")

\* C37: at any time at most one end-watch callback (check_song_end) is
\* pending in the timer queue, after any sequence of Play, Skip, Stop and
\* end-of-track events.
C37_OneEndWatch == nEnd <= 1

\* C38: at any time at most one progress-poll chain is live: at most one
\* callback among update_progress and wait_for_playing_and_update is
\* pending, and neither Seek nor Resume adds a chain next to a running one.
Chains(r) == r.nWait + r.nProg

C38_OneProgressChain ==
    /\ Chains(St) <= 1
    /\ Chains(St) = 1 =>
         /\ Chains(pause_song(St)) <= 1
         /\ \A w \in 1..MaxWidth :
              \A x \in 0..w : Chains(seek_progress(St, x, w, "ok")) <= 1

\* ------------------------------------------------------------ fairness --
\* SpecTimersFair: SpecTimers with the Tk main loop running: a timer callback
\* that stays pending is eventually called.  The user and the engine are
\* under no obligation to act.  The sessions are those with a one-track
\* playlist, where every end of a track is the end of the last track.
InitFair == Init /\ Len(playlist) = 1

NextFair ==
    \/ TPlaySelected \/ TPause \/ TStop \/ TSkip
    \/ TEngineStarts \/ TEngineFails \/ TEngineTick \/ TEngineEnds
    \/ TFireWait \/ TFireProgress \/ TFireEnd

SpecTimersFair ==
    /\ InitFair /\ [][NextFair]_vars
    /\ WF_vars(TFireWait) /\ WF_vars(TFireProgress) /\ WF_vars(TFireEnd)

\* C39: whenever the handle is Ended while not paused, eventually either a
\* next track has been started or, for the last index, the controller is
\* stopped with that row marked stopped (or the user has set the paused
\* flag in between); this includes handles restarted through Pause/Resume
\* after a Stop or after the last track ended.
EndedNotPaused == player # None /\ player.state = "ended" /\ ~paused

EndHandled ==
    \/ player = None
    \/ player.state \in {"opening", "playing", "paused", "error"}
    \/ /\ player.state = "stopped"
       /\ InRange(current_index_playing, tree)
          => tree[current_index_playing + 1].prefix = <<"stop">>

C39_EndIsHandled == EndedNotPaused ~> (EndHandled \/ paused)

\* C40: adding tracks by any add path (add_songs, add_folder, drop) only
\* appends: the existing entries keep their positions, and
\* current_index_playing, the paused flag and the engine handle are
\* unchanged, so adding tracks never interrupts or un-pauses playback.
OnlyAppends(r) ==
    /\ Len(r.playlist) >= N
    /\ SubSeq(r.playlist, 1, N) = playlist
    /\ r.current_index_playing = current_index_playing
    /\ r.paused = paused
    /\ r.player = player

C40_AddOnlyAppends ==
    /\ \A files \in SUBSET Tracks :
           OnlyAppends(add_songs(St, files)) /\ OnlyAppends(add_folder(St, files))
    /\ \A q \in Drops : OnlyAppends(handle_drop1(St, q))

====
